---- MODULE Spec2Model ----
(***************************************************************************)
(* Model of the review summarizer core: DataProcessor (preprocess_text,    *)
(* calculate_aspect_scores, filter_reviews_by_preference) and              *)
(* ReviewSummarizer (_chunk_text, generate_summary, personalize_summary),  *)
(* and the request flow of app.py.                                         *)
(*                                                                         *)
(* Every operation is a synchronous method call.  A call is modelled by a  *)
(* frame: op names the method, args holds its arguments (and the           *)
(* configuration and environment it reads), pc is "call" before the body   *)
(* has run and "done" after, and ret holds the returned value or the       *)
(* raised exception.  Init of each specification draws the arguments from  *)
(* bounded sets; the one action of the specification runs the whole body.  *)
(* A method that calls out to the summarization model, and the page        *)
(* script that calls the methods in turn, take one step per outside call;  *)
(* locals holds their local variables between steps.                       *)
(*                                                                         *)
(* Text is a sequence of symbols.  A symbol stands for a fixed run of      *)
(* characters: a word fragment ("cheap", "less"), a punctuation character  *)
(* ("."), or a whitespace character (" ", "\n").  Numbers that are floats  *)
(* in the source are kept exact: weights and scores handed to the ranker   *)
(* are integers in units of one half, and an aspect score is the fraction  *)
(* <<numerator, denominator>>.                                             *)
(***************************************************************************)
EXTENDS Integers, Sequences, FiniteSets

VARIABLES op, pc, args, locals, ret

vars == <<op, pc, args, locals, ret>>

(***************************************************************************)
(* Bounds of the model.                                                    *)
(***************************************************************************)
MaxReviews == 3

(***************************************************************************)
(* config.py: the aspect catalog.                                          *)
(***************************************************************************)
aspects == <<"price", "durability", "ease_of_use", "quality", "performance">>

aspect_keywords ==
    [price       |-> {"price", "cost", "expensive", "cheap", "affordable", "value", "worth"},
     durability  |-> {"durable", "sturdy", "break", "broken", "last", "quality", "build"},
     ease_of_use |-> {"easy", "simple", "complicated", "difficult", "user-friendly", "intuitive"},
     quality     |-> {"quality", "excellent", "poor", "great", "bad", "premium", "superior"},
     performance |-> {"performance", "fast", "slow", "efficient", "powerful", "weak"}]

Aspects == DOMAIN aspect_keywords

(***************************************************************************)
(* Generic helpers: Python built-ins used by the methods.                  *)
(***************************************************************************)
Min(a, b) == IF a <= b THEN a ELSE b

BSeq(S, n) == UNION {[1..k -> S] : k \in 0..n}

\* seq[:n]
Take(seq, n) == SubSeq(seq, 1, Min(n, Len(seq)))

\* seq[::-1]
Reverse(seq) == [k \in 1..Len(seq) |-> seq[Len(seq) + 1 - k]]

RECURSIVE SumOver(_, _)
\* sum(f[x] for x in S)
SumOver(S, f) ==
    IF S = {} THEN 0
    ELSE LET x == CHOOSE y \in S : TRUE
         IN f[x] + SumOver(S \ {x}, f)

\* raise DataProcessingError(...) / ModelError(...) from the except clause
Raise(error, cause) == [status |-> "error", error |-> error, cause |-> cause]

NoValue == [status |-> "none"]

\* A method without local state that outlives a step.
NoLocals == [none |-> TRUE]

(***************************************************************************)
(* DataProcessor.filter_reviews_by_preference                              *)
(***************************************************************************)
\* lines 187-190: sum(review_scores[aspect] * pref_score for aspect, pref_score in ...)
RelevanceScore(review_scores, user_preferences) ==
    SumOver(DOMAIN user_preferences,
            [a \in DOMAIN user_preferences |-> review_scores[a] * user_preferences[a]])

\* A check that rejects every difference between the two key sets.
ScoreKeyErrorStrict(aspect_scores, user_preferences) ==
    \E k \in 1..Len(aspect_scores) : DOMAIN aspect_scores[k] # DOMAIN user_preferences

\* review_scores[aspect] raises KeyError for an aspect the vector lacks
ScoreKeyError(aspect_scores, user_preferences) ==
    \E k \in 1..Len(aspect_scores) :
        \E a \in DOMAIN user_preferences : a \notin DOMAIN aspect_scores[k]

RelevanceScores(aspect_scores, user_preferences) ==
    [k \in 1..Len(aspect_scores) |-> RelevanceScore(aspect_scores[k], user_preferences)]

IndexPermutations(n) ==
    {p \in [1..n -> 1..n] : \A i, j \in 1..n : i # j => p[i] # p[j]}

\* np.argsort(a) with the default kind ("quicksort", which numpy documents as not
\* stable): some permutation of the indices that sorts a ascending; the order
\* of equal elements is not determined.
Argsort(a) ==
    {p \in IndexPermutations(Len(a)) : \A k \in 1..(Len(a) - 1) : a[p[k]] <= a[p[k + 1]]}

SortedIndicesAscending(relevance_scores) == Argsort(relevance_scores)

\* line 194: np.argsort(relevance_scores)[::-1]
SortedIndices(relevance_scores) == {Reverse(p) : p \in Argsort(relevance_scores)}

\* line 195: sorted_indices[:config.data.max_reviews]
FilteredIndices(sorted_indices, max_reviews) == Take(sorted_indices, max_reviews)

FilterReviewsByPreference ==
    /\ op = "filter_reviews_by_preference"
    /\ pc = "call"
    /\ pc' = "done"
    /\ UNCHANGED <<op, args, locals>>
    /\ IF ScoreKeyError(args.aspect_scores, args.user_preferences)
       THEN ret' = Raise("DataProcessingError", "KeyError")
       ELSE LET relevance_scores ==
                    RelevanceScores(args.aspect_scores, args.user_preferences)
            IN \E sorted_indices \in SortedIndices(relevance_scores) :
                  LET taken == FilteredIndices(sorted_indices, args.max_reviews)
                  IN IF \E k \in 1..Len(taken) : taken[k] > Len(args.reviews)
                     THEN ret' = Raise("DataProcessingError", "IndexError")
                     ELSE ret' = [status |-> "ok",
                                  value |-> [k \in 1..Len(taken) |-> args.reviews[taken[k]]],
                                  indices |-> taken]

\* Review texts by position; two positions may hold the same text.
ReviewPool == <<"ra", "rb", "ra", "rc", "rb">>

ZeroScores == [a \in Aspects |-> 0]

\* Aspect score vectors in units of one half (0, 0.5, 1.0); the last one lacks
\* the "quality" key.
ScoreVectorSamples ==
    {ZeroScores,
     [ZeroScores EXCEPT !["price"] = 2],
     [ZeroScores EXCEPT !["price"] = 1, !["quality"] = 1],
     [a \in Aspects \ {"quality"} |-> IF a = "price" THEN 1 ELSE 0]}

\* Preference vectors in units of one half; partial vectors are allowed, and the
\* last one names an aspect outside the catalog.
PreferenceSamples ==
    {<<>>,
     [price |-> 2, quality |-> 0],
     [price |-> 1, quality |-> 1],
     [quality |-> 2],
     [price |-> 2, durability |-> 1, ease_of_use |-> 1, quality |-> 1, performance |-> 1],
     [battery |-> 2]}

InitRank ==
    /\ op = "filter_reviews_by_preference"
    /\ pc = "call"
    /\ locals = NoLocals
    /\ ret = NoValue
    /\ \E n \in 0..MaxReviews, m \in 0..MaxReviews :
         /\ m - n \in {-1, 0, 1}
         /\ \E s \in [1..m -> ScoreVectorSamples], p \in PreferenceSamples,
               limit \in 0..(MaxReviews + 1) :
              args = [reviews |-> SubSeq(ReviewPool, 1, n),
                      aspect_scores |-> s,
                      user_preferences |-> p,
                      max_reviews |-> limit]

NextRank == FilterReviewsByPreference

SpecRank == InitRank /\ [][NextRank]_vars

(***************************************************************************)
(* Claims about filter_reviews_by_preference.                              *)
(***************************************************************************)
RankDone == op = "filter_reviews_by_preference" /\ pc = "done"

\* The call the ranker's contract is about: one score vector per review, each
\* score vector over exactly the catalog's aspects, preferences over catalog
\* aspects.
RankWellFormed ==
    /\ op = "filter_reviews_by_preference"
    /\ Len(args.reviews) = Len(args.aspect_scores)
    /\ \A k \in 1..Len(args.aspect_scores) : DOMAIN args.aspect_scores[k] = Aspects
    /\ DOMAIN args.user_preferences \subseteq Aspects

\* The relevance score of the review at input position i, as the claim states it.
ClaimedRelevance(i) ==
    SumOver(DOMAIN args.user_preferences,
            [a \in DOMAIN args.user_preferences |->
                args.aspect_scores[i][a] * args.user_preferences[a]])

\* C1: for every review list, index-aligned score list, preference vector and
\* limit, the ranker returns min(limit, len(reviews)) reviews, taken from
\* distinct input positions, in non-increasing order of relevance score, the
\* first one having the maximum relevance score of the whole input.
C1_RankLengthSubsetOrder ==
    (RankDone /\ RankWellFormed) =>
        /\ ret.status = "ok"
        /\ Len(ret.value) = Min(args.max_reviews, Len(args.reviews))
        /\ \A k \in 1..Len(ret.value) :
              /\ ret.indices[k] \in 1..Len(args.reviews)
              /\ ret.value[k] = args.reviews[ret.indices[k]]
        /\ \A j, k \in 1..Len(ret.value) : j # k => ret.indices[j] # ret.indices[k]
        /\ \A k \in 1..(Len(ret.value) - 1) :
              ClaimedRelevance(ret.indices[k]) >= ClaimedRelevance(ret.indices[k + 1])
        /\ Len(ret.value) > 0 =>
              \A i \in 1..Len(args.reviews) :
                  ClaimedRelevance(ret.indices[1]) >= ClaimedRelevance(i)

\* A ranked, truncated result whose best review was not first in the input.
C1_Witness ==
    /\ RankDone /\ RankWellFormed
    /\ ret.status = "ok"
    /\ Len(ret.value) = 2
    /\ Len(args.reviews) = 3
    /\ ret.indices[1] = 3
    /\ ClaimedRelevance(3) > ClaimedRelevance(1)
    /\ ClaimedRelevance(ret.indices[1]) > ClaimedRelevance(ret.indices[2])

\* C2: two reviews of equal relevance score appear in the output in the same
\* relative order as in the input (stable ordering).
C2_RankStableTies ==
    (RankDone /\ RankWellFormed /\ ret.status = "ok") =>
        \A j, k \in 1..Len(ret.value) :
            (j < k /\ ClaimedRelevance(ret.indices[j]) = ClaimedRelevance(ret.indices[k]))
                => ret.indices[j] < ret.indices[k]

\* C9: the ranker fails whenever the reviews list and the scores list have
\* different lengths, and returns no ranked list.
C9_RankLengthMismatchFails ==
    (RankDone /\ Len(args.reviews) # Len(args.aspect_scores)) => ret.status = "error"

\* A preference names an aspect that some score vector lacks.
PreferenceKeyMissing ==
    \E k \in 1..Len(args.aspect_scores) :
        \E a \in DOMAIN args.user_preferences : a \notin DOMAIN args.aspect_scores[k]

\* C11: whenever a score vector and the preference vector have different key
\* sets - an aspect in the preferences but not in the score vector, or in the
\* score vector but not in the preferences - the ranker fails with an error.
C11_KeyMismatchFails ==
    (RankDone /\ Len(args.reviews) = Len(args.aspect_scores)
        /\ \E k \in 1..Len(args.aspect_scores) :
              DOMAIN args.aspect_scores[k] # DOMAIN args.user_preferences)
        => ret.status = "error"

\* C11 as amended: the ranker fails with an error whenever the preferences
\* name an aspect that a score vector lacks; an aspect of the score vector that
\* the preferences do not name is no error: with one score vector per review
\* and no such missing aspect the ranker returns a ranked list.
C11_MissingScoreKeyFails ==
    RankDone =>
        /\ PreferenceKeyMissing =>
              (ret.status = "error" /\ ret.error = "DataProcessingError")
        /\ (~PreferenceKeyMissing /\ Len(args.reviews) = Len(args.aspect_scores))
              => ret.status = "ok"

\* A call whose score vector lacks a catalog aspect the preferences weigh, and
\* which failed for it.
C11_Witness ==
    /\ RankDone
    /\ Len(args.reviews) = Len(args.aspect_scores)
    /\ DOMAIN args.user_preferences \subseteq Aspects
    /\ PreferenceKeyMissing
    /\ ret.status = "error"
    /\ ret.cause = "KeyError"

(***************************************************************************)
(* Text: Python str methods used by the methods, on sequences of symbols.  *)
(***************************************************************************)
\* Characters str.split() treats as separators.
Whitespace == {" ", "\n", "\r", "\t"}

\* Characters the linguistic tokenizer makes tokens of their own.
Punctuation == {".", "!", ","}

\* str.lower() on one symbol: the capitalised fragments of the sample texts.
LowerSymbol(c) ==
    CASE c = "Cheap" -> "cheap"
      [] c = "Excellent" -> "excellent"
      [] c = "Good" -> "good"
      [] c = "The" -> "the"
      [] c = "This" -> "this"
      [] c = "Product" -> "product"
      [] c = "GREAT" -> "great"
      [] c = "Very" -> "very"
      [] c = "Break" -> "break"
      [] OTHER -> c

\* text.lower()
Lower(text) == [k \in 1..Len(text) |-> LowerSymbol(text[k])]

\* text.replace(old, new) for single characters
Replace(text, old, new) == [k \in 1..Len(text) |-> IF text[k] = old THEN new ELSE text[k]]

RECURSIVE Concat(_)
\* The string a run of symbols spells.
Concat(word) == IF word = <<>> THEN "" ELSE Head(word) \o Concat(Tail(word))

RECURSIVE SplitFrom(_, _, _)
SplitFrom(text, k, current) ==
    LET closed == IF current = <<>> THEN <<>> ELSE <<current>>
    IN IF k > Len(text) THEN closed
       ELSE IF text[k] \in Whitespace
            THEN closed \o SplitFrom(text, k + 1, <<>>)
            ELSE SplitFrom(text, k + 1, Append(current, text[k]))

\* text.split(): the maximal runs of non-whitespace characters
Split(text) == SplitFrom(text, 1, <<>>)

RECURSIVE Join(_, _)
\* sep.join(parts), parts and sep being sequences of symbols
Join(sep, parts) ==
    IF parts = <<>> THEN <<>>
    ELSE IF Len(parts) = 1 THEN parts[1]
    ELSE parts[1] \o sep \o Join(sep, Tail(parts))

(***************************************************************************)
(* DataProcessor.preprocess_text                                           *)
(***************************************************************************)
RECURSIVE CollapsePairs(_)
\* text.replace('  ', ' '): every pair of spaces, left to right, becomes one
CollapsePairs(text) ==
    IF Len(text) < 2 THEN text
    ELSE IF text[1] = " " /\ text[2] = " "
         THEN <<" ">> \o CollapsePairs(SubSeq(text, 3, Len(text)))
         ELSE <<text[1]>> \o CollapsePairs(Tail(text))

\* Whitespace cleaned by one pass of replace instead of split and join.
PreprocessTextSinglePass(text) ==
    CollapsePairs(Replace(Replace(Lower(text), "\n", " "), "\r", " "))

\* lines 90-98: lower(), newlines and carriage returns to spaces, then
\* ' '.join(text.split())
preprocess_text(text) ==
    Join(<<" ">>, Split(Replace(Replace(Lower(text), "\n", " "), "\r", " ")))

\* None handled as the empty string instead of failing.
PreprocessResultNoneAsEmpty(text, is_none) ==
    [status |-> "ok", value |-> IF is_none THEN <<>> ELSE preprocess_text(text)]

\* lines 88-102: None has no lower(): AttributeError, re-raised as
\* DataProcessingError
PreprocessResult(text, is_none) ==
    IF is_none
    THEN Raise("DataProcessingError", "AttributeError")
    ELSE [status |-> "ok", value |-> preprocess_text(text)]

PreprocessText ==
    /\ op = "preprocess_text"
    /\ pc = "call"
    /\ pc' = "done"
    /\ UNCHANGED <<op, args, locals>>
    /\ ret' = PreprocessResult(args.text, args.is_none)

(***************************************************************************)
(* DataProcessor.calculate_aspect_scores                                   *)
(***************************************************************************)
\* stopwords.words('english'): the entries the sample texts use.
stop_words == {"the", "is", "and", "but", "a", "very", "this", "it"}

RECURSIVE TokenizeFrom(_, _, _)
TokenizeFrom(text, k, current) ==
    LET closed == IF current = <<>> THEN <<>> ELSE <<current>>
    IN IF k > Len(text) THEN closed
       ELSE IF text[k] \in Whitespace
            THEN closed \o TokenizeFrom(text, k + 1, <<>>)
            ELSE IF text[k] \in Punctuation
                 THEN closed \o <<(<<text[k]>>)>> \o TokenizeFrom(text, k + 1, <<>>)
                 ELSE TokenizeFrom(text, k + 1, Append(current, text[k]))

\* nltk word_tokenize: words, with punctuation split off as separate tokens
word_tokenize(text) == TokenizeFrom(text, 1, <<>>)

Strings(words) == [k \in 1..Len(words) |-> Concat(words[k])]

\* lines 117-121: word_tokenize, or text.split() when it raises LookupError
Tokens(text, punkt_available) ==
    IF punkt_available THEN Strings(word_tokenize(text)) ELSE Strings(Split(text))

\* line 123: [w for w in words if w not in self.stop_words]
RemoveStopWords(words) == SelectSeq(words, LAMBDA w : w \notin stop_words)

\* lines 115-123
ScoredWords(text, punkt_available) ==
    RemoveStopWords(Tokens(preprocess_text(text), punkt_available))

\* The number of different keywords among the words, not of occurrences.
KeywordCountDistinct(words, keywords) ==
    Cardinality({kw \in keywords : \E k \in 1..Len(words) : words[k] = kw})

\* line 128: sum(1 for word in words if word in keywords)
KeywordCount(words, keywords) == Len(SelectSeq(words, LAMBDA w : w \in keywords))

AspectScoreUnclamped(keyword_count, word_count) == <<5 * keyword_count, word_count>>

\* line 130: min(1.0, keyword_count / len(words) * 5), as a fraction
AspectScore(keyword_count, word_count) ==
    IF 5 * keyword_count >= word_count THEN <<1, 1>> ELSE <<5 * keyword_count, word_count>>

\* lines 114-136: the outcome of calculate_aspect_scores on a text
AspectScoresOf(text, punkt_available) ==
    LET words == ScoredWords(text, punkt_available)
    IN IF Len(words) = 0
       THEN \* keyword_count / len(words): ZeroDivisionError on the first aspect
            Raise("DataProcessingError", "ZeroDivisionError")
       ELSE [status |-> "ok",
             value |-> [a \in Aspects |->
                          AspectScore(KeywordCount(words, aspect_keywords[a]),
                                      Len(words))]]

CalculateAspectScores ==
    /\ op = "calculate_aspect_scores"
    /\ pc = "call"
    /\ pc' = "done"
    /\ UNCHANGED <<op, args, locals>>
    /\ ret' = AspectScoresOf(args.text, args.punkt_available)

MaxTextLen == 3

ScoreAlphabet == {"cheap", "Cheap", "the", "good", " ", "\n", "!"}

\* "cheap but expensive and the price is great"
ScoreExampleText ==
    <<"cheap", " ", "but", " ", "expensive", " ", "and", " ", "the", " ", "price", " ",
      "is", " ", "great">>

\* Longer reviews: two aspects in six words, a stop word and punctuation, and
\* one keyword in a dozen words.
ScoreTextSamples ==
    {<<"cheap", " ", "cheap", " ", "great", " ", "good", " ", "good", " ", "good">>,
     <<"cheap", " ", "and", " ", "excellent", " ", "quality", "!">>,
     <<"The", " ", "build", " ", "is", " ", "good", " ", "good", " ", "good", " ",
       "good", " ", "good", " ", "good", " ", "good", " ", "good", " ", "good", " ",
       "good", ".">>,
     ScoreExampleText}

InitScore ==
    /\ op = "calculate_aspect_scores"
    /\ pc = "call"
    /\ locals = NoLocals
    /\ ret = NoValue
    /\ \E t \in BSeq(ScoreAlphabet, MaxTextLen) \cup ScoreTextSamples, available \in BOOLEAN :
          args = [text |-> t, punkt_available |-> available]

NextScore == CalculateAspectScores

SpecScore == InitScore /\ [][NextScore]_vars

(***************************************************************************)
(* Claims about calculate_aspect_scores.                                   *)
(***************************************************************************)
ScoreDone == op = "calculate_aspect_scores" /\ pc = "done"

\* The words of the call's text that are left after normalization,
\* tokenization and stop-word removal.
CallWords == ScoredWords(args.text, args.punkt_available)

\* C4: whenever calculate_aspect_scores returns, the vector's key set is
\* exactly the catalog's aspect set, every value lies in [0, 1], and an aspect
\* none of whose keywords is among the words has the value 0.
C4_ScoreKeysAndRange ==
    (ScoreDone /\ ret.status = "ok") =>
        /\ DOMAIN ret.value = {aspects[k] : k \in 1..Len(aspects)}
        /\ \A a \in DOMAIN ret.value :
              /\ ret.value[a][2] > 0
              /\ 0 <= ret.value[a][1]
              /\ ret.value[a][1] <= ret.value[a][2]
              /\ (\A k \in 1..Len(CallWords) : CallWords[k] \notin aspect_keywords[a])
                    => ret.value[a][1] = 0

\* A returned vector with a saturated aspect, an aspect strictly between 0 and
\* 1, and an aspect at 0.
C4_Witness ==
    /\ ScoreDone
    /\ ret.status = "ok"
    /\ ret.value["price"] = <<1, 1>>
    /\ ret.value["quality"][1] > 0
    /\ ret.value["quality"][1] < ret.value["quality"][2]
    /\ ret.value["performance"][1] = 0

\* C5: on a text with no word left after normalization and stop-word removal
\* the scorer does not fail: it returns the vector with every aspect at 0.
C5_EmptyWordsScoreZero ==
    (ScoreDone /\ Len(CallWords) = 0) =>
        /\ ret.status = "ok"
        /\ \A a \in Aspects : ret.value[a][1] = 0

\* The number of the call's words that are keywords of an aspect.
CallKeywordCount(a) ==
    Cardinality({k \in 1..Len(CallWords) : CallWords[k] \in aspect_keywords[a]})

\* C15: for a text with at least one word left after stop-word removal, each
\* aspect's score is min(1, keyword_count / word_count * 5), word_count the
\* number of words left and keyword_count the number of them in the aspect's
\* keyword set; "cheap but expensive and the price is great" scores 1.0 on
\* price.
C15_ScoreFormula ==
    (ScoreDone /\ Len(CallWords) > 0) =>
        /\ ret.status = "ok"
        /\ \A a \in Aspects :
              IF 5 * CallKeywordCount(a) >= Len(CallWords)
              THEN ret.value[a] = <<1, 1>>
              ELSE ret.value[a] = <<5 * CallKeywordCount(a), Len(CallWords)>>
        /\ args.text = ScoreExampleText => ret.value["price"] = <<1, 1>>

\* The example text scored: three price keywords among the words left, and
\* stop words removed.
C15_Witness ==
    /\ ScoreDone
    /\ args.text = ScoreExampleText
    /\ ret.status = "ok"
    /\ CallKeywordCount("price") = 3
    /\ Len(CallWords) = 4
    /\ ret.value["price"] = <<1, 1>>
    /\ ret.value["performance"] = <<0, 4>>

\* C16: when word_tokenize raises LookupError the scorer does not fail: it
\* falls back to text.split() and returns a vector with every catalog aspect
\* and every value in [0, 1].
C16_FallbackDoesNotFail ==
    (ScoreDone /\ ~args.punkt_available) =>
        /\ ret.status = "ok"
        /\ DOMAIN ret.value = Aspects
        /\ \A a \in Aspects :
              0 <= ret.value[a][1] /\ ret.value[a][1] <= ret.value[a][2]

(***************************************************************************)
(* Calls of preprocess_text, and the claims about it.                      *)
(***************************************************************************)
\* test_preprocess_text: "This Product is GREAT!\n\nVery durable."
PreprocessTestText ==
    <<"This", " ", "Product", " ", "is", " ", "GREAT", "!", "\n", "\n",
      "Very", " ", "durable", ".">>

InitPreprocess ==
    /\ op = "preprocess_text"
    /\ pc = "call"
    /\ locals = NoLocals
    /\ ret = NoValue
    /\ \/ \E t \in BSeq(ScoreAlphabet \cup {"\r"}, MaxTextLen)
                     \cup ScoreTextSamples \cup {PreprocessTestText} :
              args = [text |-> t, is_none |-> FALSE]
       \/ args = [text |-> <<>>, is_none |-> TRUE]

NextPreprocess == PreprocessText

SpecPreprocess == InitPreprocess /\ [][NextPreprocess]_vars

PreprocessDone == op = "preprocess_text" /\ pc = "done"

\* C12: preprocess_text is idempotent, normalizing a normalized text changes
\* nothing; hence scoring the normalized review gives the same outcome as
\* scoring the raw review, whichever tokenizer is in use.
C12_PreprocessIdempotent ==
    (PreprocessDone /\ ret.status = "ok") =>
        /\ preprocess_text(ret.value) = ret.value
        /\ \A available \in BOOLEAN :
              AspectScoresOf(ret.value, available) = AspectScoresOf(args.text, available)
        /\ args.text = PreprocessTestText =>
              ret.value = <<"this", " ", "product", " ", "is", " ", "great", "!", " ",
                            "very", " ", "durable", ".">>

\* A text that normalization changes: upper case lowered and a run of
\* whitespace, with a newline in it, collapsed.
C12_Witness ==
    /\ PreprocessDone
    /\ ret.status = "ok"
    /\ \E k \in 1..Len(args.text) : args.text[k] = "Cheap"
    /\ \E k \in 1..(Len(args.text) - 1) :
          args.text[k] \in Whitespace /\ args.text[k + 1] = "\n"
    /\ ret.value = <<"cheap">>

\* C13: preprocess_text called with None fails with DataProcessingError and
\* returns no normalized value.
C13_NoneTextRaises ==
    (PreprocessDone /\ args.is_none) =>
        /\ ret.status = "error"
        /\ ret.error = "DataProcessingError"
        /\ "value" \notin DOMAIN ret

\* The call with None, failed.
C13_Witness ==
    /\ PreprocessDone
    /\ args.is_none
    /\ ret.status = "error"
    /\ ret.cause = "AttributeError"

(***************************************************************************)
(* T5Tokenizer as _chunk_text uses it.  A unit (token) is a SentencePiece   *)
(* piece: a symbol, marked when it starts a word (the piece carries the    *)
(* word-boundary marker), or the end-of-sequence token.                    *)
(***************************************************************************)
EOS == [piece |-> "</s>", start |-> FALSE]

RECURSIVE Pieces(_, _, _)
\* The pieces of text from position k on; at_start says that the next piece
\* starts a word (true at the start of the text: the tokenizer prefixes a
\* word boundary).  The literal "</s>" is read as the special token.
Pieces(text, k, at_start) ==
    IF k > Len(text) THEN <<>>
    ELSE IF text[k] \in Whitespace THEN Pieces(text, k + 1, TRUE)
    ELSE IF text[k] = "</s>" THEN <<EOS>> \o Pieces(text, k + 1, TRUE)
    ELSE <<[piece |-> text[k], start |-> at_start]>> \o Pieces(text, k + 1, FALSE)

\* self.tokenizer.encode(text): the pieces, with the end-of-sequence token
\* appended unless the sequence already ends with it
encode(text) ==
    LET ids == Pieces(text, 1, TRUE)
    IN IF ids # <<>> /\ ids[Len(ids)] = EOS THEN ids ELSE Append(ids, EOS)

RECURSIVE Detokenize(_)
Detokenize(ids) ==
    IF ids = <<>> THEN <<>>
    ELSE (IF Head(ids).start THEN <<" ", Head(ids).piece>> ELSE <<Head(ids).piece>>)
         \o Detokenize(Tail(ids))

\* self.tokenizer.decode(ids): the pieces' text, a marked piece preceded by a
\* space, without the leading space
decode(ids) ==
    LET text == Detokenize(ids)
    IN IF text # <<>> /\ Head(text) = " " THEN Tail(text) ELSE text

(***************************************************************************)
(* ReviewSummarizer._chunk_text                                            *)
(***************************************************************************)
RECURSIVE ChunkLoop(_, _, _, _, _)
\* lines 74-90: the token lists handed to decode, in order.  current_length
\* always equals len(current_chunk).
ChunkLoop(tokens, k, chunks, current_chunk, max_length) ==
    IF k > Len(tokens)
    THEN IF current_chunk # <<>> THEN Append(chunks, current_chunk) ELSE chunks
    ELSE IF Len(current_chunk) + 1 > max_length
         THEN ChunkLoop(tokens, k + 1, Append(chunks, current_chunk),
                        <<tokens[k]>>, max_length)
         ELSE ChunkLoop(tokens, k + 1, chunks,
                        Append(current_chunk, tokens[k]), max_length)

\* Closing a chunk one unit late.
TokenChunksLoose(tokens, max_length) == ChunkLoop(tokens, 1, <<>>, <<>>, max_length + 1)

TokenChunks(tokens, max_length) == ChunkLoop(tokens, 1, <<>>, <<>>, max_length)

ChunkText ==
    /\ op = "_chunk_text"
    /\ pc = "call"
    /\ pc' = "done"
    /\ UNCHANGED <<op, args, locals>>
    /\ LET tokens == encode(args.text)
           token_chunks == TokenChunks(tokens, args.max_length)
       IN ret' = [status |-> "ok",
                  value |-> [k \in 1..Len(token_chunks) |-> decode(token_chunks[k])],
                  token_chunks |-> token_chunks,
                  tokens |-> tokens]

MaxChunkText == 3

MaxChunkLength == 3

ChunkAlphabet == {"worth", "less", " "}

InitChunk ==
    /\ op = "_chunk_text"
    /\ pc = "call"
    /\ locals = NoLocals
    /\ ret = NoValue
    /\ \E t \in BSeq(ChunkAlphabet, MaxChunkText), n \in (0 - 1)..MaxChunkLength :
          args = [text |-> t, max_length |-> n]

NextChunk == ChunkText

SpecChunk == InitChunk /\ [][NextChunk]_vars

(***************************************************************************)
(* Claims about _chunk_text.                                               *)
(***************************************************************************)
ChunkDone == op = "_chunk_text" /\ pc = "done"

RECURSIVE Flatten(_)
Flatten(seqs) == IF seqs = <<>> THEN <<>> ELSE Head(seqs) \o Flatten(Tail(seqs))

\* The units of a returned chunk: the pieces the tokenizer reads in it (not
\* counting an end-of-sequence token the tokenizer would add).
ChunkUnits(chunk) == Pieces(chunk, 1, TRUE)

\* C3: for every text and every max_units >= 1 the returned chunks,
\* concatenated in order, are the original unit sequence exactly, and no chunk
\* holds more than max_units units.
C3_ChunkRoundTrip ==
    (ChunkDone /\ args.max_length >= 1) =>
        /\ ret.status = "ok"
        /\ Flatten([k \in 1..Len(ret.value) |-> ChunkUnits(ret.value[k])]) = encode(args.text)
        /\ \A k \in 1..Len(ret.value) : Len(ChunkUnits(ret.value[k])) <= args.max_length

\* C10: _chunk_text fails whenever max_units is zero or negative, and returns
\* no chunk sequence.
C10_ChunkRejectsNonPositive ==
    (ChunkDone /\ args.max_length <= 0) => ret.status = "error"

\* C17: for every max_units >= 1, every chunk except the last holds exactly
\* max_units units, the last chunk between 1 and max_units, no chunk is empty,
\* and an empty unit sequence yields an empty chunk list.  Stated of the unit
\* lists the loop closes and of the units read in the returned chunks.
C17_ChunkGreedyFill ==
    (ChunkDone /\ args.max_length >= 1) =>
        LET n == Len(ret.value) IN
        /\ ret.status = "ok"
        /\ Len(ret.token_chunks) = n
        /\ \A k \in 1..n :
              /\ ret.value[k] # <<>>
              /\ Len(ret.token_chunks[k]) = Len(ChunkUnits(ret.value[k]))
              /\ IF k < n
                 THEN Len(ret.token_chunks[k]) = args.max_length
                 ELSE /\ 1 <= Len(ret.token_chunks[k])
                      /\ Len(ret.token_chunks[k]) <= args.max_length
        /\ TokenChunks(<<>>, args.max_length) = <<>>

\* A text chunked into a full chunk of two or more units and a shorter rest.
C17_Witness ==
    /\ ChunkDone
    /\ args.max_length >= 2
    /\ ret.status = "ok"
    /\ Len(ret.token_chunks) >= 2
    /\ Len(ret.token_chunks[1]) = args.max_length
    /\ Len(ret.token_chunks[Len(ret.token_chunks)]) < args.max_length

(***************************************************************************)
(* ReviewSummarizer.personalize_summary                                    *)
(***************************************************************************)
RECURSIVE SplitOnFrom(_, _, _, _)
SplitOnFrom(text, sep, k, current) ==
    IF k > Len(text) THEN <<current>>
    ELSE IF k + Len(sep) - 1 <= Len(text) /\ SubSeq(text, k, k + Len(sep) - 1) = sep
         THEN <<current>> \o SplitOnFrom(text, sep, k + Len(sep), <<>>)
         ELSE SplitOnFrom(text, sep, k + 1, Append(current, text[k]))

\* text.split(sep): the pieces between the occurrences of sep, left to right;
\* one piece more than there are occurrences, so ''.split(sep) is ['']
SplitOn(text, sep) == SplitOnFrom(text, sep, 1, <<>>)

\* line 161: summary.split('. ')
Sentences(summary) == SplitOn(summary, <<".", " ">>)

\* keyword in sentence.lower().  The fragments of the sample summaries are
\* chosen so that a keyword occurs in a text only as a whole fragment.
Contains(sentence, keyword) == \E k \in 1..Len(sentence) : LowerSymbol(sentence[k]) = keyword

\* Counting every occurrence of a keyword, not its presence.
RelevanceOccurrences(sentence, keywords) ==
    Cardinality({k \in 1..Len(sentence) : LowerSymbol(sentence[k]) \in keywords})

\* line 170: sum(1 for keyword in keywords if keyword in sentence.lower())
Relevance(sentence, keywords) == Cardinality({kw \in keywords : Contains(sentence, kw)})

\* lines 166-171: score of one sentence
SentenceScore(sentence, user_preferences) ==
    SumOver(DOMAIN user_preferences,
            [a \in DOMAIN user_preferences |->
                Relevance(sentence, aspect_keywords[a]) * user_preferences[a]])

\* Position of a new element in a list sorted by descending key: after every
\* element whose key is at least its own.
InsertAfterEqual(order, scores, i) ==
    LET n == Cardinality({k \in 1..Len(order) : scores[order[k]] >= scores[i]})
    IN SubSeq(order, 1, n) \o <<i>> \o SubSeq(order, n + 1, Len(order))

\* The same, placed before the elements of equal key.
InsertBeforeEqual(order, scores, i) ==
    LET n == Cardinality({k \in 1..Len(order) : scores[order[k]] > scores[i]})
    IN SubSeq(order, 1, n) \o <<i>> \o SubSeq(order, n + 1, Len(order))

RECURSIVE SortFrom(_, _, _)
SortFrom(scores, i, order) ==
    IF i > Len(scores) THEN order
    ELSE SortFrom(scores, i + 1, InsertAfterEqual(order, scores, i))

RECURSIVE UnstableSortFrom(_, _, _)
UnstableSortFrom(scores, i, order) ==
    IF i > Len(scores) THEN order
    ELSE UnstableSortFrom(scores, i + 1, InsertBeforeEqual(order, scores, i))

SortedDescendingTiesReversed(scores) == UnstableSortFrom(scores, 1, <<>>)

\* Keeping only the sentences that match a preference.
SortedDescendingDroppingZero(scores) ==
    SelectSeq(SortFrom(scores, 1, <<>>), LAMBDA i : scores[i] > 0)

\* line 175: sorted(zip(sentences, sentence_scores), key=lambda x: x[1],
\* reverse=True), as the input positions in output order.  Python's sort is
\* stable, also with reverse=True.
SortedDescending(scores) == SortFrom(scores, 1, <<>>)

EnsureTrailingPeriodAlways(text) == Append(text, ".")

\* lines 179-180: if not personalized_summary.endswith('.'): += '.'
EnsureTrailingPeriod(text) ==
    IF text # <<>> /\ text[Len(text)] = "." THEN text ELSE Append(text, ".")

PersonalizeSummary ==
    /\ op = "personalize_summary"
    /\ pc = "call"
    /\ pc' = "done"
    /\ UNCHANGED <<op, args, locals>>
    /\ LET sentences == Sentences(args.summary)
       IN IF \E a \in DOMAIN args.user_preferences : a \notin DOMAIN aspect_keywords
          THEN \* config.aspects.aspect_keywords[aspect]: KeyError
               ret' = Raise("ModelError", "KeyError")
          ELSE LET sentence_scores ==
                       [k \in 1..Len(sentences) |->
                           SentenceScore(sentences[k], args.user_preferences)]
                   order == SortedDescending(sentence_scores)
                   joined == Join(<<".", " ">>, [k \in 1..Len(order) |-> sentences[order[k]]])
               IN ret' = [status |-> "ok",
                          value |-> EnsureTrailingPeriod(joined),
                          order |-> order,
                          scores |-> sentence_scores]

MaxSummaryLen == 5

SummaryAlphabet == {"Cheap", "fine", ".", " "}

ExampleSummary ==
    <<"Cheap", " ", "product", ".", " ", "Excellent", " ", "build", " ", "quality", ".">>

\* "Breakfast. fine": keywords inside a word.
SubstringSummary == <<"Break", "fast", ".", " ", "fine">>

\* Three sentences, the first two without a keyword.
SummarySamples ==
    {ExampleSummary,
     SubstringSummary,
     <<"fine", ".", " ", "Good", ".", " ", "Cheap", " ", "price", ".">>,
     <<"great", " ", "value", ".", " ", "fine", ".", " ", "cheap", " ", "quality">>}

InitPersonalize ==
    /\ op = "personalize_summary"
    /\ pc = "call"
    /\ locals = NoLocals
    /\ ret = NoValue
    /\ \E t \in BSeq(SummaryAlphabet, MaxSummaryLen) \cup SummarySamples,
          p \in PreferenceSamples :
          args = [summary |-> t, user_preferences |-> p]

NextPersonalize == PersonalizeSummary

SpecPersonalize == InitPersonalize /\ [][NextPersonalize]_vars

(***************************************************************************)
(* Claims about personalize_summary.                                       *)
(***************************************************************************)
PersonalizeDone == op = "personalize_summary" /\ pc = "done"

\* Sentence k of the call's summary, and its score.
CallSentences == Sentences(args.summary)

CallScore(k) == SentenceScore(CallSentences[k], args.user_preferences)

\* The sentences in the order of the result, joined by ". ".
JoinedInOrder ==
    Join(<<".", " ">>, [k \in 1..Len(ret.order) |-> CallSentences[ret.order[k]]])

StartsWith(text, prefix) ==
    Len(text) >= Len(prefix) /\ SubSeq(text, 1, Len(prefix)) = prefix

\* C6: personalize_summary of the empty summary returns the empty string and
\* raises no error, for every preference vector.
C6_EmptySummaryEmptyResult ==
    (PersonalizeDone /\ args.summary = <<>>) => (ret.status = "ok" /\ ret.value = <<>>)

\* The call the personalizer's contract is about: preferences over catalog
\* aspects.
PersonalizeOverCatalog ==
    op = "personalize_summary" /\ DOMAIN args.user_preferences \subseteq Aspects

EndsWith(text, suffix) ==
    Len(text) >= Len(suffix)
    /\ SubSeq(text, Len(text) - Len(suffix) + 1, Len(text)) = suffix

\* C7: the sentences come out in non-increasing order of score, sentences of
\* equal score in their original relative order; with an empty preference
\* vector they come out in the original order, and for "Cheap product.
\* Excellent build quality." with {price: 1.0, quality: 0.0} the result starts
\* with "Cheap product.".
C7_PersonalizeStableDescending ==
    (PersonalizeDone /\ PersonalizeOverCatalog) =>
        /\ ret.status = "ok"
        /\ Len(ret.order) = Len(CallSentences)
        /\ \A k \in 1..Len(ret.order) : ret.order[k] \in 1..Len(CallSentences)
        /\ StartsWith(ret.value, JoinedInOrder)
        /\ \A j, k \in 1..Len(ret.order) :
              j < k =>
                 /\ CallScore(ret.order[j]) >= CallScore(ret.order[k])
                 /\ CallScore(ret.order[j]) = CallScore(ret.order[k])
                       => ret.order[j] < ret.order[k]
        /\ args.user_preferences = <<>> =>
              ret.order = [k \in 1..Len(CallSentences) |-> k]
        /\ (args.summary = ExampleSummary
               /\ args.user_preferences = [price |-> 2, quality |-> 0])
              => StartsWith(ret.value, <<"Cheap", " ", "product", ".">>)

\* Three sentences: the last one moved first, the two of equal score behind it
\* in their original order.
C7_Witness ==
    /\ PersonalizeDone /\ PersonalizeOverCatalog
    /\ ret.status = "ok"
    /\ ret.order = <<3, 1, 2>>
    /\ CallScore(1) = CallScore(2)
    /\ CallScore(3) > CallScore(1)
    /\ CallSentences[1] # CallSentences[2]

\* C8: for every non-empty summary the result is the reordered sentences
\* joined by ". ", with one "." appended when the last of them lacks it and none
\* when it has one, and it ends with exactly one trailing ".".
C8_SingleTrailingPeriod ==
    (PersonalizeDone /\ PersonalizeOverCatalog /\ args.summary # <<>>) =>
        /\ ret.status = "ok"
        /\ EndsWith(JoinedInOrder, <<".">>) => ret.value = JoinedInOrder
        /\ ~EndsWith(JoinedInOrder, <<".">>) => ret.value = Append(JoinedInOrder, ".")
        /\ EndsWith(ret.value, <<".">>)
        /\ ~EndsWith(ret.value, <<".", ".">>)

\* C8 as amended: for every non-empty summary the result is the reordered
\* sentences joined by ". ", with one "." appended when the last of them lacks
\* it and none when it has one; it ends with ".", and with exactly one unless
\* the sentence placed last itself ends with "..".
C8_TrailingPeriod ==
    (PersonalizeDone /\ PersonalizeOverCatalog /\ args.summary # <<>>) =>
        /\ ret.status = "ok"
        /\ EndsWith(JoinedInOrder, <<".">>) => ret.value = JoinedInOrder
        /\ ~EndsWith(JoinedInOrder, <<".">>) => ret.value = Append(JoinedInOrder, ".")
        /\ EndsWith(ret.value, <<".">>)
        /\ ~EndsWith(CallSentences[ret.order[Len(ret.order)]], <<".", ".">>)
              => ~EndsWith(ret.value, <<".", ".">>)

\* The summary's final sentence, which carries the closing period, is moved
\* forward, and a "." is appended after the sentence that ends up last.
C8_Witness ==
    /\ PersonalizeDone /\ PersonalizeOverCatalog
    /\ ret.status = "ok"
    /\ Len(ret.order) = 3
    /\ ret.order[1] = 3
    /\ EndsWith(args.summary, <<".">>)
    /\ ~EndsWith(JoinedInOrder, <<".">>)
    /\ ret.value = Append(JoinedInOrder, ".")

\* The lowercased fragments of a sentence.
LoweredFragments(sentence) == {LowerSymbol(sentence[k]) : k \in 1..Len(sentence)}

\* The score the claim gives sentence k: over the catalog, an aspect's weight
\* (nothing for an aspect without a preference) times the number of its
\* keywords present in the lowercased sentence.
PresenceScore(k) ==
    SumOver(Aspects,
            [a \in Aspects |->
                IF a \in DOMAIN args.user_preferences
                THEN args.user_preferences[a]
                        * Cardinality(aspect_keywords[a] \cap LoweredFragments(CallSentences[k]))
                ELSE 0])

\* C18: the score of a sentence is the sum, over the (aspect, weight) pairs
\* of the preferences, of weight times the number of the aspect's keywords
\* that occur in the lowercased sentence, each keyword counted once, as a
\* substring; aspects absent from the preferences contribute nothing.
C18_SentencePresenceScore ==
    (PersonalizeDone /\ PersonalizeOverCatalog) =>
        /\ ret.status = "ok"
        /\ Len(ret.scores) = Len(CallSentences)
        /\ \A k \in 1..Len(CallSentences) : ret.scores[k] = PresenceScore(k)
        /\ (args.summary = SubstringSummary /\ args.user_preferences = [price |-> 1, quality |-> 1])
              => ret.scores = <<0, 0>>
        /\ (args.summary = SubstringSummary /\ "performance" \in DOMAIN args.user_preferences)
              => ret.scores = <<2, 0>>

\* A sentence with a keyword twice and in capitals scores its weight once; a
\* preference for another aspect adds nothing.
C18_Witness ==
    /\ PersonalizeDone /\ PersonalizeOverCatalog
    /\ ret.status = "ok"
    /\ args.summary = <<"Cheap", " ", "Cheap">>
    /\ args.user_preferences = [price |-> 2, quality |-> 0]
    /\ ret.scores = <<2>>

\* C19: the sentences joined into the result are a permutation of the
\* sentences of summary.split('. '): none dropped, duplicated or altered, for
\* every summary and every preference vector over catalog aspects.
C19_PersonalizeOnlyReorders ==
    (PersonalizeDone /\ PersonalizeOverCatalog) =>
        /\ ret.status = "ok"
        /\ Len(ret.order) = Len(CallSentences)
        /\ \A i \in 1..Len(CallSentences) :
              Cardinality({k \in 1..Len(ret.order) : ret.order[k] = i}) = 1
        /\ ret.value \in {JoinedInOrder, Append(JoinedInOrder, ".")}
        /\ Sentences(JoinedInOrder) = [k \in 1..Len(ret.order) |-> CallSentences[ret.order[k]]]

\* The two sentences of the example exchanged, each as it was split.
C19_Witness ==
    /\ PersonalizeDone /\ PersonalizeOverCatalog
    /\ args.summary = ExampleSummary
    /\ ret.status = "ok"
    /\ ret.order = <<2, 1>>
    /\ ret.value = <<"Excellent", " ", "build", " ", "quality", ".", ".", " ",
                     "Cheap", " ", "product", ".">>

(***************************************************************************)
(* ReviewSummarizer.generate_summary, one step per chunk.  The oracle is   *)
(* the model call on a chunk (self.tokenizer(chunk), self.model.generate   *)
(* and the decode of its output): it returns a summary or raises.          *)
(* locals.calls logs its invocations.                                      *)
(***************************************************************************)
\* lines 50-52: "summarize: " + " [REVIEW] ".join(reviews)
PrepareInputText(reviews) ==
    <<"summarize", ":", " ">> \o Join(<<" ", "[", "REVIEW", "]", " ">>, reviews)

\* lines 109-111: the chunks of the input text, no summaries yet
GenerateBegin ==
    /\ op = "generate_summary"
    /\ pc = "call"
    /\ pc' = "loop"
    /\ UNCHANGED <<op, args, ret>>
    /\ LET token_chunks == TokenChunks(encode(PrepareInputText(args.reviews)), args.max_length)
       IN locals' = [chunks |-> [k \in 1..Len(token_chunks) |-> decode(token_chunks[k])],
                     i |-> 1,
                     summaries |-> <<>>,
                     calls |-> <<>>]

\* What the model may answer to a chunk.
OracleSummaries == {<<"fine">>, <<"Cheap", " ", "price", ".">>}

\* lines 113-136: the oracle answers the next chunk
OracleReturns ==
    /\ op = "generate_summary"
    /\ pc = "loop"
    /\ locals.i <= Len(locals.chunks)
    /\ UNCHANGED <<op, pc, args, ret>>
    /\ \E summary \in OracleSummaries :
          locals' = [locals EXCEPT
                        !.i = @ + 1,
                        !.summaries = Append(@, summary),
                        !.calls = Append(@, [chunk |-> locals.i, outcome |-> "ok"])]

\* The failure of a chunk passed over, the loop going on with the next chunk.
OracleRaisesSwallowed ==
    /\ op = "generate_summary"
    /\ pc = "loop"
    /\ locals.i <= Len(locals.chunks)
    /\ UNCHANGED <<op, pc, args, ret>>
    /\ locals' = [locals EXCEPT
                      !.i = @ + 1,
                      !.calls = Append(@, [chunk |-> locals.i, outcome |-> "raise"])]

\* lines 113-132 and 144-146: the oracle raises on the next chunk; the except
\* clause re-raises it as ModelError
OracleRaises ==
    /\ op = "generate_summary"
    /\ pc = "loop"
    /\ locals.i <= Len(locals.chunks)
    /\ pc' = "done"
    /\ UNCHANGED <<op, args>>
    /\ locals' = [locals EXCEPT
                      !.calls = Append(@, [chunk |-> locals.i, outcome |-> "raise"])]
    /\ ret' = Raise("ModelError", "RuntimeError")

\* lines 139-142: " ".join(summaries)
GenerateReturn ==
    /\ op = "generate_summary"
    /\ pc = "loop"
    /\ locals.i > Len(locals.chunks)
    /\ pc' = "done"
    /\ UNCHANGED <<op, args, locals>>
    /\ ret' = [status |-> "ok", value |-> Join(<<" ">>, locals.summaries)]

MaxGenerateReviews == 2

GenerateReviewTexts == {<<"good">>, <<"cheap">>}

\* config.model.max_length is a field of the configuration; the calls are
\* taken over its small positive values.
InitGenerate ==
    /\ op = "generate_summary"
    /\ pc = "call"
    /\ locals = NoLocals
    /\ ret = NoValue
    /\ \E r \in BSeq(GenerateReviewTexts, MaxGenerateReviews), n \in 1..MaxChunkLength :
          args = [reviews |-> r, max_length |-> n]

NextGenerate == GenerateBegin \/ OracleReturns \/ OracleRaises \/ GenerateReturn

SpecGenerate == InitGenerate /\ [][NextGenerate]_vars

(***************************************************************************)
(* Claims about generate_summary.                                          *)
(***************************************************************************)
GenerateStarted == op = "generate_summary" /\ pc # "call"

\* C14: the oracle is invoked at most once per chunk, in chunk order, and
\* never retried; if it fails on a chunk no further chunk is submitted, the
\* operation fails with an error propagated to the caller, and no partial
\* summary is returned.
C14_OracleOncePerChunkFailFast ==
    GenerateStarted =>
        LET calls == locals.calls
            n == Len(locals.calls)
        IN /\ n <= Len(locals.chunks)
           /\ \A j \in 1..n : calls[j].chunk = j
           /\ \A j \in 1..n : j < n => calls[j].outcome = "ok"
           /\ (n > 0 /\ calls[n].outcome = "raise") =>
                 /\ pc = "done"
                 /\ ret.status = "error"
                 /\ ret.error = "ModelError"
                 /\ "value" \notin DOMAIN ret
           /\ (pc = "done" /\ ret.status = "ok") =>
                 /\ n = Len(locals.chunks)
                 /\ \A j \in 1..n : calls[j].outcome = "ok"
                 /\ Len(locals.summaries) = n
                 /\ ret.value = Join(<<" ">>, locals.summaries)
           /\ pc = "loop" => ret = NoValue

\* The oracle answered two chunks and failed on the third, chunks remaining:
\* the call has failed and what was summarized is not returned.
C14_Witness ==
    /\ op = "generate_summary"
    /\ pc = "done"
    /\ Len(locals.calls) = 3
    /\ Len(locals.chunks) > 3
    /\ locals.calls[3].outcome = "raise"
    /\ Len(locals.summaries) = 2
    /\ ret.status = "error"

(***************************************************************************)
(* app.py: the module-level construction of the two components and one run *)
(* of main.  locals holds the script's variables, the log of the stage     *)
(* calls (invoked) and what the page shows (shown).  A stage is a call of  *)
(* a component method; it returns or raises, and a raise inside the inner  *)
(* try block ends the run in the except clause of lines 150-152.           *)
(***************************************************************************)
Stages ==
    <<"load_data", "prepare_for_summarization", "filter_reviews_by_preference",
      "generate_summary", "personalize_summary">>

\* lines 150-152: st.error(f"Error processing reviews: ...")
ProcessingError == [kind |-> "error", text |-> "Error processing reviews"]

Shown(kind, text) == [kind |-> kind, text |-> text]

\* lines 23-28: data_processor = DataProcessor(), None when it raises
InitDataProcessor ==
    /\ op = "main"
    /\ pc = "init_data_processor"
    /\ pc' = "init_summarizer"
    /\ UNCHANGED <<op, args, ret>>
    /\ \E outcome \in {"ok", "None"} :
          locals' = [locals EXCEPT !.data_processor = outcome]

\* lines 30-35: summarizer = ReviewSummarizer(), None when it raises
InitSummarizer ==
    /\ op = "main"
    /\ pc = "init_summarizer"
    /\ pc' = "check_initialization"
    /\ UNCHANGED <<op, args, ret>>
    /\ \E outcome \in {"ok", "None"} :
          locals' = [locals EXCEPT !.summarizer = outcome]

\* Looking at the data processor only.
CheckInitializationDataOnly ==
    /\ op = "main"
    /\ pc = "check_initialization"
    /\ UNCHANGED <<op, args, ret>>
    /\ IF locals.data_processor = "None"
       THEN /\ pc' = "done"
            /\ locals' = [locals EXCEPT
                  !.shown = Append(@, Shown("error", "Data processor failed to initialize"))]
       ELSE /\ pc' = "file_uploader"
            /\ UNCHANGED locals

\* lines 37-45 and 63-65: check_initialization(); main returns when it is False
CheckInitialization ==
    /\ op = "main"
    /\ pc = "check_initialization"
    /\ UNCHANGED <<op, args, ret>>
    /\ IF locals.data_processor = "None"
       THEN /\ pc' = "done"
            /\ locals' = [locals EXCEPT
                  !.shown = Append(@, Shown("error", "Data processor failed to initialize"))]
       ELSE IF locals.summarizer = "None"
       THEN /\ pc' = "done"
            /\ locals' = [locals EXCEPT
                  !.shown = Append(@, Shown("error", "Summarizer failed to initialize"))]
       ELSE /\ pc' = "file_uploader"
            /\ UNCHANGED locals

\* lines 68-73: st.file_uploader(...); nothing more without a file
FileUploader ==
    /\ op = "main"
    /\ pc = "file_uploader"
    /\ UNCHANGED <<op, args, ret>>
    /\ \E uploaded_file \in BOOLEAN :
          /\ locals' = [locals EXCEPT !.uploaded_file = uploaded_file]
          /\ pc' = IF uploaded_file THEN "save" ELSE "done"

\* A step of the inner try block that is no stage: it goes on to next or
\* raises into the except clause.
PageStep(next) ==
    /\ UNCHANGED <<op, args, ret>>
    /\ \/ /\ pc' = next
          /\ UNCHANGED locals
       \/ /\ pc' = "done"
          /\ locals' = [locals EXCEPT !.shown = Append(@, ProcessingError)]

\* lines 76-78: the upload written to temp_reviews.csv
SaveUpload ==
    /\ op = "main"
    /\ pc = "save"
    /\ PageStep("load_data")

\* A stage called: logged, and either its result kept in locals and the run
\* going on to next, or the raise handled by the except clause.
StageCall(stage, next, variable, values) ==
    /\ UNCHANGED <<op, args, ret>>
    /\ \/ \E value \in values :
             /\ pc' = next
             /\ locals' = [locals EXCEPT
                   !.invoked = Append(@, [stage |-> stage, outcome |-> "ok"]),
                   ![variable] = value]
       \/ /\ pc' = "done"
          /\ locals' = [locals EXCEPT
                !.invoked = Append(@, [stage |-> stage, outcome |-> "raise"]),
                !.shown = Append(@, ProcessingError)]

\* line 81: df = data_processor.load_data(temp_path); df is held as its
\* number of reviews
LoadData ==
    /\ op = "main"
    /\ pc = "load_data"
    /\ StageCall("load_data", "loaded", "df", 1..MaxReviews)

\* lines 93-109: one slider per aspect, from 0.0 to 1.0 and 0.5 unless moved;
\* in halves, as the weights of the ranker
SliderSettings == [Aspects -> {0, 1, 2}]

\* lines 82-109: the success message, the sample and the sliders
ShowLoadedAndSliders ==
    /\ op = "main"
    /\ pc = "loaded"
    /\ UNCHANGED <<op, args, ret>>
    /\ \/ \E p \in SliderSettings :
             /\ pc' = "button"
             /\ locals' = [locals EXCEPT
                   !.shown = Append(@, Shown("success", locals.df)),
                   !.user_preferences = p]
       \/ /\ pc' = "done"
          /\ locals' = [locals EXCEPT !.shown = Append(@, ProcessingError)]

\* line 111: if st.button("Generate Summary")
Button ==
    /\ op = "main"
    /\ pc = "button"
    /\ UNCHANGED <<op, args, ret, locals>>
    /\ \E pressed \in BOOLEAN :
          pc' = IF pressed THEN "prepare_for_summarization" ELSE "done"

\* line 114
PrepareForSummarization ==
    /\ op = "main"
    /\ pc = "prepare_for_summarization"
    /\ StageCall("prepare_for_summarization", "filter_reviews_by_preference",
                 "processed_reviews", {locals.df})

\* lines 117-121
FilterReviews ==
    /\ op = "main"
    /\ pc = "filter_reviews_by_preference"
    /\ StageCall("filter_reviews_by_preference", "generate_summary",
                 "filtered_reviews", {locals.processed_reviews})

\* line 124
GenerateSummary ==
    /\ op = "main"
    /\ pc = "generate_summary"
    /\ StageCall("generate_summary", "personalize_summary", "base_summary", OracleSummaries)

\* lines 127-130
PersonalizeSummaryStage ==
    /\ op = "main"
    /\ pc = "personalize_summary"
    /\ StageCall("personalize_summary", "display", "final_summary",
                 {EnsureTrailingPeriod(locals.base_summary)})

\* lines 133-134: st.subheader("Personalized Summary"); st.write(final_summary)
DisplaySummary ==
    /\ op = "main"
    /\ pc = "display"
    /\ pc' = "coverage"
    /\ UNCHANGED <<op, args, ret>>
    /\ locals' = [locals EXCEPT !.shown = Append(@, Shown("summary", locals.final_summary))]

\* lines 137-148: the coverage chart
AspectCoverage ==
    /\ op = "main"
    /\ pc = "coverage"
    /\ PageStep("done")

InitApp ==
    /\ op = "main"
    /\ pc = "init_data_processor"
    /\ args = <<>>
    /\ ret = NoValue
    /\ locals = [data_processor |-> "unset", summarizer |-> "unset",
                 uploaded_file |-> FALSE, df |-> 0, user_preferences |-> <<>>,
                 processed_reviews |-> 0, filtered_reviews |-> 0,
                 base_summary |-> <<>>, final_summary |-> <<>>,
                 invoked |-> <<>>, shown |-> <<>>]

NextApp ==
    \/ InitDataProcessor
    \/ InitSummarizer
    \/ CheckInitialization
    \/ FileUploader
    \/ SaveUpload
    \/ LoadData
    \/ ShowLoadedAndSliders
    \/ Button
    \/ PrepareForSummarization
    \/ FilterReviews
    \/ GenerateSummary
    \/ PersonalizeSummaryStage
    \/ DisplaySummary
    \/ AspectCoverage

SpecApp == InitApp /\ [][NextApp]_vars

(***************************************************************************)
(* Claims about the request flow.                                          *)
(***************************************************************************)
SummaryDisplayed == \E k \in 1..Len(locals.shown) : locals.shown[k].kind = "summary"

ErrorShown == \E k \in 1..Len(locals.shown) : locals.shown[k].kind = "error"

ComponentFailed == locals.data_processor = "None" \/ locals.summarizer = "None"

\* C20: a personalized summary is displayed only after both components
\* initialized and load_data, prepare_for_summarization,
\* filter_reviews_by_preference, generate_summary and personalize_summary
\* each completed, in that order; if a component failed to initialize no
\* stage is ever invoked; if a stage raises, no later stage runs, an error
\* message is shown and no summary is displayed.
C20_SummaryOnlyAfterAllStages ==
    op = "main" =>
        LET invoked == locals.invoked
            n == Len(locals.invoked)
        IN /\ n <= Len(Stages)
           /\ \A j \in 1..n : invoked[j].stage = Stages[j]
           /\ SummaryDisplayed =>
                 /\ locals.data_processor = "ok"
                 /\ locals.summarizer = "ok"
                 /\ n = Len(Stages)
                 /\ \A j \in 1..n : invoked[j].outcome = "ok"
           /\ ComponentFailed =>
                 /\ n = 0
                 /\ ~SummaryDisplayed
                 /\ pc = "done" => ErrorShown
           /\ \A j \in 1..n :
                 invoked[j].outcome = "raise" =>
                    /\ j = n
                    /\ pc = "done"
                    /\ ErrorShown
                    /\ ~SummaryDisplayed

\* A run that displayed the summary of its fifth stage.
C20_Witness ==
    /\ op = "main"
    /\ pc = "done"
    /\ Len(locals.invoked) = 5
    /\ locals.invoked[5] = [stage |-> "personalize_summary", outcome |-> "ok"]
    /\ locals.shown[Len(locals.shown)] = Shown("summary", locals.final_summary)
    /\ locals.final_summary = <<"fine", ".">>

====
